---- MODULE Spec2Model ----
(***************************************************************************)
(* A model of linecount (src/src/main.rs): the extension filter, the two   *)
(* buffered line counters, process_file, the shallow and the recursive     *)
(* directory walker, process_directory and main.                           *)
(*                                                                         *)
(* A file system is a function from nodes (0 is the target of the run) to  *)
(* records [kind, parent, ok, name, content]: kind is "file" or "dir", ok   *)
(* says whether File::open (a file) or read_dir (a directory) succeeds,    *)
(* name is the final path component as a sequence of characters, content   *)
(* is the byte stream of a file.  A read error can strike at any read, and *)
(* a read may return fewer bytes than the buffer holds.  Errors of single  *)
(* directory entries and changes of the file system during a run are left  *)
(* out.                                                                    *)
(***************************************************************************)
EXTENDS Integers, Sequences, FiniteSets, TLC

(***************************************************************************)
(* Bounds of the model.                                                    *)
(***************************************************************************)
MaxLen == 4
MaxName == 4
MaxDigits == 1
MaxNodes == 3
MaxBlocks == 2
MaxWideFiles == 2

(***************************************************************************)
(* Program constants.                                                      *)
(***************************************************************************)
NL == 10
CR == 13
SP == 32
TAB == 9
XB == 120
KiB == 1024
DefaultKb == 8
I32Max == 2147483647

Pow2(n) == 2 ^ n

Bytes == {NL, CR, SP, TAB, XB}

(* Sequences over S of length at most n. *)
SeqsUpTo(S, n) == UNION {[1..k -> S] : k \in 0..n}

Min(a, b) == IF a < b THEN a ELSE b

(***************************************************************************)
(* i32 arithmetic.  The model's integers are those of an i32, so a sum is  *)
(* tested for overflow before it is formed.  A chunk holds fewer than 2^31 *)
(* bytes (no read returns more), so `as i32` keeps a chunk's count.        *)
(***************************************************************************)
I32Min == -I32Max - 1

(* Whether a + b leaves the range of an i32. *)
AddOverflows(a, b) ==
    \/ b > 0 /\ a > I32Max - b
    \/ b < 0 /\ a < I32Min - b

(* a + b in two's complement, as the release build computes it. *)
wrapping_add(a, b) ==
    IF b > 0 /\ a > I32Max - b THEN (a - I32Max - 1) + (b - I32Max - 1)
    ELSE IF b < 0 /\ a < I32Min - b THEN (a + I32Max + 1) + (b + I32Max + 1)
    ELSE a + b

(* What `a += b` does on an overflow: TRUE, the release build wraps;       *)
(* FALSE, the debug build panics.  Without overflow only TRUE.             *)
AddOutcomes(a, b) == IF AddOverflows(a, b) THEN BOOLEAN ELSE {TRUE}

(***************************************************************************)
(* parse_buffer_size: str::parse::<usize>, then kilobytes to bytes.        *)
(***************************************************************************)
NoArg == <<"-", "-">>
ParseErr == -1

DigitVal ==
    "0" :> 0 @@ "1" :> 1 @@ "2" :> 2 @@ "3" :> 3 @@ "4" :> 4 @@
    "5" :> 5 @@ "6" :> 6 @@ "7" :> 7 @@ "8" :> 8 @@ "9" :> 9

RECURSIVE ParseDigits(_, _)
ParseDigits(s, acc) ==
    IF s = <<>> THEN acc
    ELSE IF Head(s) \notin DOMAIN DigitVal THEN ParseErr
    ELSE ParseDigits(Tail(s), acc * 10 + DigitVal[Head(s)])

(* usize::from_str: an optional "+", then at least one decimal digit.      *)
(* The numerals of the model stay far below usize::MAX.                    *)
ParseUsize(s) ==
    IF s = <<>> THEN ParseErr
    ELSE IF Len(s) = 1 /\ Head(s) \in {"+", "-"} THEN ParseErr
    ELSE IF Head(s) = "+" THEN ParseDigits(Tail(s), 0)
    ELSE ParseDigits(s, 0)

parse_buffer_size(s) ==
    LET kb == ParseUsize(s)
    IN  IF kb = ParseErr THEN DefaultKb * KiB ELSE kb * KiB

(***************************************************************************)
(* is_valid_ext: Path::extension, to_ascii_lowercase, FILE_EXT_LIST.       *)
(***************************************************************************)
FILE_EXT_LIST == {
    <<"t","x","t">>, <<"t","e","x","t">>, <<"m","d">>,
    <<"m","a","r","k","d","o","w","n">>, <<"l","o","g">>, <<"r","s">>, <<"p","y">>,
    <<"j","s">>, <<"t","s">>, <<"j","a","v","a">>, <<"c">>, <<"c","p","p">>, <<"h">>,
    <<"h","p","p">>, <<"g","o">>, <<"r","b">>, <<"p","h","p">>, <<"s","w","i","f","t">>,
    <<"k","t">>, <<"s","c","a","l","a">>, <<"r">>, <<"h","t","m","l">>, <<"h","t","m">>,
    <<"c","s","s">>, <<"s","c","s","s">>, <<"s","a","s","s">>, <<"l","e","s","s">>,
    <<"x","m","l">>, <<"s","v","g">>, <<"j","s","o","n">>, <<"y","a","m","l">>,
    <<"y","m","l">>, <<"t","o","m","l">>, <<"i","n","i">>, <<"c","s","v">>,
    <<"t","s","v">>, <<"s","q","l">>, <<"s","h">>, <<"b","a","s","h">>,
    <<"c","o","n","f">>, <<"c","o","n","f","i","g">> }

UpperToLower ==
    "A" :> "a" @@ "B" :> "b" @@ "C" :> "c" @@ "D" :> "d" @@ "E" :> "e" @@
    "F" :> "f" @@ "G" :> "g" @@ "H" :> "h" @@ "I" :> "i" @@ "J" :> "j" @@
    "K" :> "k" @@ "L" :> "l" @@ "M" :> "m" @@ "N" :> "n" @@ "O" :> "o" @@
    "P" :> "p" @@ "Q" :> "q" @@ "R" :> "r" @@ "S" :> "s" @@ "T" :> "t" @@
    "U" :> "u" @@ "V" :> "v" @@ "W" :> "w" @@ "X" :> "x" @@ "Y" :> "y" @@
    "Z" :> "z"

to_ascii_lowercase(s) ==
    [i \in 1..Len(s) |-> IF s[i] \in DOMAIN UpperToLower THEN UpperToLower[s[i]] ELSE s[i]]

NoExt == <<"/">>

(* Path::extension of a final path component: the part after the last     *)
(* dot; none when there is no dot, when the only dot is the first          *)
(* character, or for "..".                                                 *)
extension(name) ==
    LET dots == {i \in 1..Len(name) : name[i] = "."}
    IN  IF dots = {} \/ name = <<".", ".">> THEN NoExt
        ELSE LET d == CHOOSE i \in dots : \A j \in dots : j <= i
             IN  IF d = 1 THEN NoExt ELSE SubSeq(name, d + 1, Len(name))

(* is_valid_ext comparing the extension as it is spelled, not lowercased. *)
is_valid_ext_cased(name) ==
    LET ext == extension(name)
    IN  IF ext = NoExt THEN FALSE
        ELSE \E allowed \in FILE_EXT_LIST : allowed = ext

is_valid_ext(name) ==
    LET ext == extension(name)
    IN  IF ext = NoExt THEN FALSE
        ELSE \E allowed \in FILE_EXT_LIST : allowed = to_ascii_lowercase(ext)

(***************************************************************************)
(* The counters' loop bodies.                                              *)
(***************************************************************************)
(* bytecount::count over the chunk less its last byte. *)
RECURSIVE bytecount_short(_, _)
bytecount_short(chunk, b) ==
    IF Len(chunk) <= 1 THEN 0
    ELSE (IF Head(chunk) = b THEN 1 ELSE 0) + bytecount_short(Tail(chunk), b)

(* bytecount::count(chunk, b): the occurrences of byte b in the chunk. *)
RECURSIVE bytecount(_, _)
bytecount(chunk, b) ==
    IF chunk = <<>> THEN 0
    ELSE (IF Head(chunk) = b THEN 1 ELSE 0) + bytecount(Tail(chunk), b)

(* The byte loop with the carriage return taken for data. *)
RECURSIVE scan_chunk_cr(_, _)
scan_chunk_cr(chunk, st) ==
    IF chunk = <<>> THEN st
    ELSE LET b == Head(chunk)
             nx == IF b = NL
                   THEN [total |-> IF st.has_data THEN wrapping_add(st.total, 1)
                                   ELSE st.total,
                         has_data |-> FALSE]
                   ELSE IF b \in {SP, TAB} THEN st
                   ELSE [st EXCEPT !.has_data = TRUE]
         IN  scan_chunk_cr(Tail(chunk), nx)

(* The byte loop of count_nonempty_lines over one chunk, from the state    *)
(* st = [total, has_data].                                                 *)
RECURSIVE scan_chunk(_, _)
scan_chunk(chunk, st) ==
    IF chunk = <<>> THEN st
    ELSE LET b == Head(chunk)
             nx == IF b = NL
                   THEN [total |-> IF st.has_data THEN wrapping_add(st.total, 1)
                                   ELSE st.total,
                         has_data |-> FALSE]
                   ELSE IF b \in {CR, SP, TAB} THEN st
                   ELSE [st EXCEPT !.has_data = TRUE]
         IN  scan_chunk(Tail(chunk), nx)

(***************************************************************************)
(* The state of a run.                                                     *)
(***************************************************************************)
VARIABLES
    pc,           \* where the run is: start, next, item, pf, read, ret, print, done, panic
    fs,           \* the file system, node 0 being the target
    argv,         \* the flags after the target: [buf, skip, rec]
    buffer_size,  \* main's buffer_size, in bytes
    skip_empty,   \* main's skip_empty
    recursive,    \* main's recursive
    stack,        \* walk_recursive's stack of pending paths
    entries,      \* walk_shallow's directory entries not yet returned
    item,         \* what the walker's next() returned last
    cur,          \* the path process_file is working on
    pos,          \* bytes of cur consumed by read
    total,        \* the counter's running total (i32)
    has_data,     \* count_nonempty_lines' flag
    ret,          \* process_file's return value (i32)
    dir_total,    \* process_directory's total (i32)
    main_total,   \* main's total (i32)
    out,          \* the total printed on standard output
    opened,       \* nodes File::open was attempted on
    open_fails,   \* nodes whose File::open failed
    read_fails,   \* nodes a read of which failed
    calls,        \* per node, the calls of process_file
    pushes,       \* per node, the times the recursive walker pushed it
    yielded,      \* nodes a walker returned
    walker_done   \* the walker returned None

vars == <<pc, fs, argv, buffer_size, skip_empty, recursive, stack, entries, item,
          cur, pos, total, has_data, ret, dir_total, main_total, out, opened,
          open_fails, read_fails, calls, pushes, yielded, walker_done>>

flagVars == <<buffer_size, skip_empty, recursive>>
walkVars == <<stack, entries, item, pushes, yielded, walker_done>>
countVars == <<pos, total, has_data>>
fileVars == <<cur, ret, opened, open_fails, read_fails, calls>>
sumVars == <<dir_total, main_total, out>>

Root == 0
None == -1
Nodes == DOMAIN fs

(* A directory test that takes an unreadable directory for no directory. *)
is_dir_readable(n) == fs[n].kind = "dir" /\ fs[n].ok

is_dir(n) == fs[n].kind = "dir"
is_file(n) == fs[n].kind = "file"

(* A listing that holds the whole subtree of d. *)
RECURSIVE IsBelow(_, _)
IsBelow(n, d) == n # Root /\ (fs[n].parent = d \/ IsBelow(fs[n].parent, d))
ChildrenDeep(d) == {n \in Nodes : IsBelow(n, d)}

(* The entries read_dir lists for directory d. *)
Children(d) == {n \in Nodes : n # Root /\ fs[n].parent = d}

(* Every order in which the members of S can be listed. *)
Orders(S) ==
    {s \in [1..Cardinality(S) -> S] : \A i, j \in 1..Cardinality(S) : s[i] = s[j] => i = j}

(***************************************************************************)
(* main, lines 17-49: the flags are parsed, the target is dispatched on    *)
(* path.is_dir(); for a directory process_directory builds its walker.     *)
(***************************************************************************)
Main ==
    /\ pc = "start"
    /\ buffer_size' = IF argv.buf = NoArg THEN buffer_size
                      ELSE parse_buffer_size(argv.buf)
    /\ skip_empty' = argv.skip
    /\ recursive' = argv.rec
    /\ IF is_dir(Root)
       THEN /\ cur' = cur
            /\ IF argv.rec
               THEN /\ stack' = <<Root>>
                    /\ pushes' = [pushes EXCEPT ![Root] = @ + 1]
                    /\ pc' = "next"
                    /\ entries' = entries
               ELSE /\ pc' = IF fs[Root].ok THEN "next" ELSE "panic"
                    /\ entries' = IF fs[Root].ok THEN Children(Root) ELSE entries
                    /\ UNCHANGED <<stack, pushes>>
       ELSE /\ pc' = "pf"
            /\ cur' = Root
            /\ UNCHANGED <<stack, pushes, entries>>
    /\ UNCHANGED <<fs, argv, item, yielded, walker_done, countVars, ret, opened,
                   open_fails, read_fails, calls, sumVars>>

(***************************************************************************)
(* walk_shallow's iterator, lines 185-187: the next entry, in the order    *)
(* the file system lists them.                                             *)
(***************************************************************************)
WalkShallowNext ==
    /\ pc = "next"
    /\ ~recursive
    /\ IF entries = {}
       THEN /\ item' = None
            /\ walker_done' = TRUE
            /\ UNCHANGED <<entries, yielded>>
       ELSE \E e \in entries :
                /\ entries' = entries \ {e}
                /\ item' = e
                /\ yielded' = yielded \cup {e}
                /\ walker_done' = walker_done
    /\ pc' = "item"
    /\ UNCHANGED <<fs, argv, flagVars, stack, pushes, countVars, fileVars, sumVars>>

(***************************************************************************)
(* walk_recursive's closure, lines 194-205, one pop of the stack a step:   *)
(* a directory is expanded (an unreadable one dropped), anything else is   *)
(* returned; an empty stack returns None.                                  *)
(***************************************************************************)
WalkRecursiveNext ==
    /\ pc = "next"
    /\ recursive
    /\ IF stack = <<>>
       THEN /\ item' = None
            /\ walker_done' = TRUE
            /\ pc' = "item"
            /\ UNCHANGED <<stack, pushes, yielded>>
       ELSE LET path == stack[Len(stack)]
                rest == SubSeq(stack, 1, Len(stack) - 1)
            IN  IF is_dir(path)
                THEN /\ IF fs[path].ok
                        THEN /\ \E order \in Orders(Children(path)) :
                                    stack' = rest \o order
                             /\ pushes' = [n \in Nodes |->
                                    IF n \in Children(path) THEN pushes[n] + 1
                                    ELSE pushes[n]]
                        ELSE /\ stack' = rest
                             /\ pushes' = pushes
                     /\ pc' = "next"
                     /\ UNCHANGED <<item, yielded, walker_done>>
                ELSE /\ stack' = rest
                     /\ item' = path
                     /\ yielded' = yielded \cup {path}
                     /\ pc' = "item"
                     /\ UNCHANGED <<pushes, walker_done>>
    /\ UNCHANGED <<fs, argv, flagVars, entries, countVars, fileVars, sumVars>>

(***************************************************************************)
(* process_directory's loop, lines 175-181: a path that is a file goes to  *)
(* process_file; when the walker is exhausted the total is returned.       *)
(***************************************************************************)
LoopBody ==
    /\ pc = "item"
    /\ IF item = None
       THEN /\ main_total' = dir_total
            /\ pc' = "print"
            /\ cur' = cur
       ELSE /\ pc' = IF is_file(item) THEN "pf" ELSE "next"
            /\ cur' = IF is_file(item) THEN item ELSE cur
            /\ main_total' = main_total
    /\ UNCHANGED <<fs, argv, flagVars, walkVars, countVars, ret, opened, open_fails,
                   read_fails, calls, dir_total, out>>

(***************************************************************************)
(* process_file, lines 84-95: the extension filter, then File::open; the   *)
(* buffer and the counter's locals are set up (lines 105-106, 125-127).    *)
(***************************************************************************)
ProcessFile ==
    /\ pc = "pf"
    /\ calls' = [calls EXCEPT ![cur] = @ + 1]
    /\ IF ~is_valid_ext(fs[cur].name)
       THEN /\ ret' = 0
            /\ pc' = "ret"
            /\ UNCHANGED <<opened, open_fails, countVars>>
       ELSE /\ opened' = opened \cup {cur}
            /\ IF fs[cur].ok
               THEN /\ pc' = "read"
                    /\ pos' = 0
                    /\ total' = 0
                    /\ has_data' = FALSE
                    /\ UNCHANGED <<ret, open_fails>>
               ELSE /\ ret' = 0
                    /\ pc' = "ret"
                    /\ open_fails' = open_fails \cup {cur}
                    /\ UNCHANGED countVars
    /\ UNCHANGED <<fs, argv, flagVars, walkVars, cur, read_fails, sumVars>>

ReadErr == -1

(* A counter that drops its count when a read fails. *)
read_error_zero(t) == 0

(* What the counter returns when a read fails: the loop is left and the    *)
(* running total returned.                                                 *)
read_error_result(t) == t

(* What file.read(&mut buffer) can return with `left` bytes left: an       *)
(* error, 0 at the end of the stream or into an empty buffer, or any       *)
(* positive number of bytes up to the buffer's and the stream's size.      *)
ReadResults(left) ==
    LET most == Min(buffer_size, left)
    IN  {ReadErr} \cup (IF most = 0 THEN {0} ELSE 1..most)

(***************************************************************************)
(* count_newlines_fast, lines 108-121, one read a step.                    *)
(***************************************************************************)
ReadRaw ==
    /\ pc = "read"
    /\ ~skip_empty
    /\ \E n \in ReadResults(Len(fs[cur].content) - pos) :
        IF n = ReadErr \/ n = 0
        THEN /\ ret' = IF n = ReadErr THEN read_error_result(total) ELSE total
             /\ pc' = "ret"
             /\ read_fails' = IF n = ReadErr THEN read_fails \cup {cur} ELSE read_fails
             /\ UNCHANGED countVars
        ELSE LET chunk == SubSeq(fs[cur].content, pos + 1, pos + n)
                 cnt == bytecount(chunk, NL)
             IN  /\ pos' = pos + n
                 /\ \E wraps \in AddOutcomes(total, cnt) :
                        /\ total' = IF wraps THEN wrapping_add(total, cnt) ELSE total
                        /\ pc' = IF wraps THEN "read" ELSE "panic"
                 /\ UNCHANGED <<has_data, ret, read_fails>>
    /\ UNCHANGED <<fs, argv, flagVars, walkVars, cur, opened, open_fails, calls,
                   sumVars>>

(***************************************************************************)
(* count_nonempty_lines, lines 129-158, one read a step.                   *)
(***************************************************************************)
ReadSkip ==
    /\ pc = "read"
    /\ skip_empty
    /\ \E n \in ReadResults(Len(fs[cur].content) - pos) :
        IF n = ReadErr
        THEN /\ ret' = read_error_result(total)
             /\ pc' = "ret"
             /\ read_fails' = read_fails \cup {cur}
             /\ UNCHANGED countVars
        ELSE IF n = 0
        THEN /\ ret' = IF has_data THEN wrapping_add(total, 1) ELSE total
             /\ total' = IF has_data THEN wrapping_add(total, 1) ELSE total
             /\ pc' = "ret"
             /\ UNCHANGED <<pos, has_data, read_fails>>
        ELSE LET chunk == SubSeq(fs[cur].content, pos + 1, pos + n)
                 st == scan_chunk(chunk, [total |-> total, has_data |-> has_data])
             IN  /\ pos' = pos + n
                 /\ total' = st.total
                 /\ has_data' = st.has_data
                 /\ pc' = "read"
                 /\ UNCHANGED <<ret, read_fails>>
    /\ UNCHANGED <<fs, argv, flagVars, walkVars, cur, opened, open_fails, calls,
                   sumVars>>

(* A caller that gives the walk up when the file failed to open or read. *)
ReturnAbort ==
    /\ pc = "ret"
    /\ IF is_dir(Root) /\ cur \notin (open_fails \cup read_fails)
       THEN /\ dir_total' = wrapping_add(dir_total, ret)
            /\ pc' = "next"
            /\ main_total' = main_total
       ELSE /\ main_total' = wrapping_add(dir_total, ret)
            /\ pc' = "print"
            /\ dir_total' = dir_total
    /\ UNCHANGED <<fs, argv, flagVars, walkVars, countVars, fileVars, out>>

(***************************************************************************)
(* The caller takes process_file's result: process_directory adds it to    *)
(* its total (line 177), main keeps it (line 48).                          *)
(***************************************************************************)
Return ==
    /\ pc = "ret"
    /\ IF is_dir(Root)
       THEN /\ \E wraps \in AddOutcomes(dir_total, ret) :
                    /\ dir_total' = IF wraps THEN wrapping_add(dir_total, ret)
                                    ELSE dir_total
                    /\ pc' = IF wraps THEN "next" ELSE "panic"
            /\ main_total' = main_total
       ELSE /\ main_total' = ret
            /\ pc' = "print"
            /\ dir_total' = dir_total
    /\ UNCHANGED <<fs, argv, flagVars, walkVars, countVars, fileVars, out>>

(***************************************************************************)
(* main, lines 51-52: the total is printed and the run ends.               *)
(***************************************************************************)
PrintTotal ==
    /\ pc = "print"
    /\ out' = Append(out, main_total)
    /\ pc' = "done"
    /\ UNCHANGED <<fs, argv, flagVars, walkVars, countVars, fileVars, dir_total,
                   main_total>>

(***************************************************************************)
(* count_newlines_fast on a stream given as blocks [len, nl] (len bytes    *)
(* holding nl newlines), each read returning one block: the same loop,     *)
(* lines 108-121, for streams too long to list byte by byte.               *)
(***************************************************************************)
ReadRawWide ==
    /\ pc = "read"
    /\ ~skip_empty
    /\ LET blocks == fs[cur].blocks
           atEnd == pos = Len(blocks) \/ buffer_size = 0
       IN  \E failed \in BOOLEAN :
            IF failed \/ atEnd
            THEN /\ ret' = IF failed THEN read_error_result(total) ELSE total
                 /\ pc' = "ret"
                 /\ read_fails' = IF failed THEN read_fails \cup {cur} ELSE read_fails
                 /\ UNCHANGED countVars
            ELSE LET b == blocks[pos + 1]
                 IN  /\ b.len <= buffer_size
                     /\ pos' = pos + 1
                     /\ \E wraps \in AddOutcomes(total, b.nl) :
                            /\ total' = IF wraps THEN wrapping_add(total, b.nl)
                                        ELSE total
                            /\ pc' = IF wraps THEN "read" ELSE "panic"
                     /\ UNCHANGED <<has_data, ret, read_fails>>
    /\ UNCHANGED <<fs, argv, flagVars, walkVars, cur, opened, open_fails, calls,
                   sumVars>>

(***************************************************************************)
(* Any consumer of the walker: it takes what next() returned and calls     *)
(* next() again, also after None.                                          *)
(***************************************************************************)
Consume ==
    /\ pc = "item"
    /\ pc' = "next"
    /\ UNCHANGED <<fs, argv, flagVars, walkVars, countVars, fileVars, sumVars>>

(***************************************************************************)
(* The file systems and flags the specifications start from.               *)
(***************************************************************************)
GoodName == <<"a", ".", "r", "s">>
BadName == <<"a", ".", "s">>
DirName == <<"d">>

FileNode(parent, name, content, ok) ==
    [kind |-> "file", parent |-> parent, ok |-> ok, name |-> name, content |-> content]

DirNode(parent, ok) ==
    [kind |-> "dir", parent |-> parent, ok |-> ok, name |-> DirName, content |-> <<>>]

(* A target that is one file. *)
FileTargets(names, contents, oks) ==
    {[n \in {Root} |-> FileNode(Root, nm, c, ok)] :
        nm \in names, c \in contents, ok \in oks}

(* The content of the file at node n of a directory tree. *)
TreeContents == << <<XB, NL, XB>>, <<NL, SP, NL>>, <<XB, NL>>, <<TAB, XB>> >>
TreeContent(n) == TreeContents[((n - 1) % Len(TreeContents)) + 1]

(* The kinds of file a tree holds: [name, ok]. *)
AllFiles ==
    {[name |-> GoodName, ok |-> TRUE], [name |-> GoodName, ok |-> FALSE],
     [name |-> BadName, ok |-> TRUE]}
PlainFiles == {[name |-> GoodName, ok |-> TRUE]}

TreeNodes(n, files) ==
    IF n = Root
    THEN {DirNode(Root, ok) : ok \in BOOLEAN}
    ELSE UNION {
            {DirNode(p, ok) : ok \in BOOLEAN}
            \cup {FileNode(p, f.name, TreeContent(n), f.ok) : f \in files}
            : p \in 0..(n - 1)}

(* The directory trees of at most k nodes below the target: the parent of  *)
(* a node is a directory of smaller number, so the trees are finite and    *)
(* free of cycles.                                                         *)
Trees(k, files) ==
    UNION {
        {t \in [0..j -> UNION {TreeNodes(n, files) : n \in 0..j}] :
            \A n \in 0..j : t[n] \in TreeNodes(n, files) /\ t[t[n].parent].kind = "dir"}
        : j \in 0..k}

DigitChars == {"0", "2", "x"}
BufArgs == {NoArg} \cup SeqsUpTo(DigitChars, MaxDigits)
NameChars == {".", "r", "R", "s", "S"}
Names == SeqsUpTo(NameChars, MaxName) \ {<<>>}

Flags(bufs, skips, recs) == [buf : bufs, skip : skips, rec : recs]

(* The variables no walker has touched, on file system f with flags a. *)
Blank(f, a) ==
    /\ fs = f
    /\ argv = a
    /\ buffer_size = DefaultKb * KiB
    /\ skip_empty = FALSE
    /\ entries = {}
    /\ item = None
    /\ cur = Root
    /\ pos = 0
    /\ total = 0
    /\ has_data = FALSE
    /\ ret = 0
    /\ dir_total = 0
    /\ main_total = 0
    /\ out = <<>>
    /\ opened = {}
    /\ open_fails = {}
    /\ read_fails = {}
    /\ calls = [n \in DOMAIN f |-> 0]
    /\ yielded = {}
    /\ walker_done = FALSE

(* The state at line 26 of main. *)
Start(f, a) ==
    /\ Blank(f, a)
    /\ pc = "start"
    /\ recursive = FALSE
    /\ stack = <<>>
    /\ pushes = [n \in DOMAIN f |-> 0]

(***************************************************************************)
(* SpecCount: one openable file with an allowed extension, every content   *)
(* up to MaxLen bytes, every buffer-size flag up to MaxDigits characters.  *)
(***************************************************************************)
InitCount ==
    \E f \in FileTargets({GoodName}, SeqsUpTo(Bytes, MaxLen), {TRUE}),
       a \in Flags(BufArgs, BOOLEAN, {FALSE}) : Start(f, a)

NextFile == Main \/ ProcessFile \/ ReadRaw \/ ReadSkip \/ Return \/ PrintTotal

SpecCount == InitCount /\ [][NextFile]_vars

(***************************************************************************)
(* SpecFile: one file of any name up to MaxName characters, openable or    *)
(* not.                                                                    *)
(***************************************************************************)
InitFile ==
    \E f \in FileTargets(Names, {<<XB, NL>>}, BOOLEAN),
       a \in Flags({NoArg}, BOOLEAN, BOOLEAN) : Start(f, a)

SpecFile == InitFile /\ [][NextFile]_vars

(***************************************************************************)
(* Spec: a directory target, every tree of at most MaxNodes nodes below    *)
(* it, with or without --skip-empty and --recursive.                       *)
(***************************************************************************)
Init ==
    \E f \in Trees(MaxNodes, AllFiles),
       a \in Flags({NoArg}, BOOLEAN, BOOLEAN) : Start(f, a)

Next ==
    \/ Main
    \/ WalkShallowNext
    \/ WalkRecursiveNext
    \/ LoopBody
    \/ ProcessFile
    \/ ReadRaw
    \/ ReadSkip
    \/ Return
    \/ PrintTotal

Spec == Init /\ [][Next]_vars

(***************************************************************************)
(* SpecWalk: the recursive walker alone, as walk_recursive(root) builds    *)
(* it (line 191), driven by any consumer.                                  *)
(***************************************************************************)
InitWalk ==
    \E f \in Trees(MaxNodes, PlainFiles) :
        /\ Blank(f, [buf |-> NoArg, skip |-> FALSE, rec |-> TRUE])
        /\ pc = "next"
        /\ recursive = TRUE
        /\ stack = <<Root>>
        /\ pushes = [n \in DOMAIN f |-> IF n = Root THEN 1 ELSE 0]

NextWalk == WalkRecursiveNext \/ Consume

SpecWalk == InitWalk /\ [][NextWalk]_vars /\ WF_vars(NextWalk)

(***************************************************************************)
(* SpecWide: a directory of files given as blocks, read in raw mode with   *)
(* a buffer of 1 GiB (--buffer-size=1048576).                              *)
(***************************************************************************)
BigBlock == Pow2(30)
WideBufArg == <<"1", "0", "4", "8", "5", "7", "6">>
BlockKinds ==
    {[len |-> 1, nl |-> 0], [len |-> 1, nl |-> 1], [len |-> BigBlock, nl |-> BigBlock]}

WideTrees ==
    {[n \in 0..MaxWideFiles |->
        IF n = Root
        THEN DirNode(Root, TRUE)
        ELSE [kind |-> "file", parent |-> Root, ok |-> TRUE, name |-> GoodName,
              blocks |-> bl[n]]] :
        bl \in [1..MaxWideFiles -> SeqsUpTo(BlockKinds, MaxBlocks)]}

InitWide ==
    \E f \in WideTrees, a \in Flags({WideBufArg}, {FALSE}, BOOLEAN) : Start(f, a)

NextWide ==
    \/ Main
    \/ WalkShallowNext
    \/ WalkRecursiveNext
    \/ LoopBody
    \/ ProcessFile
    \/ ReadRawWide
    \/ Return
    \/ PrintTotal

SpecWide == InitWide /\ [][NextWide]_vars

(***************************************************************************)
(* What the claims speak of, stated without the counters' code.            *)
(***************************************************************************)
(* The number of newline bytes of stream c. *)
NumNewlines(c) == Cardinality({i \in 1..Len(c) : c[i] = NL})

(* A byte other than newline, carriage return, space and tab. *)
IsData(b) == b \notin {NL, CR, SP, TAB}

(* The newlines of c that end a line holding a data byte. *)
NonBlankEnds(c) ==
    {i \in 1..Len(c) :
        /\ c[i] = NL
        /\ \E j \in 1..(i - 1) : IsData(c[j]) /\ \A k \in j..(i - 1) : c[k] # NL}

(* Whether the bytes after the last newline of c hold a data byte. *)
TrailingNonBlank(c) ==
    \E j \in 1..Len(c) : IsData(c[j]) /\ \A k \in j..Len(c) : c[k] # NL

NonEmptyLines(c) == Cardinality(NonBlankEnds(c)) + (IF TrailingNonBlank(c) THEN 1 ELSE 0)

Content == fs[cur].content
ReadSoFar == SubSeq(Content, 1, pos)

(* The counter returned after reading the whole stream, no read failing. *)
ReadWhole == pc = "ret" /\ cur \in opened /\ cur \notin (open_fails \cup read_fails)
             /\ pos = Len(Content)

(* The counter returned because a read failed. *)
ReadFailed == pc = "ret" /\ cur \in read_fails

(***************************************************************************)
(* C1: for every content and either mode, the count is the same for every  *)
(* buffer size --buffer-size accepts, 0 KB included: every run that ends   *)
(* without a read error returns what one read of the whole stream counts.  *)
(***************************************************************************)
OneReadCount(c, skip) ==
    IF skip
    THEN LET st == scan_chunk(c, [total |-> 0, has_data |-> FALSE])
         IN  IF st.has_data THEN st.total + 1 ELSE st.total
    ELSE bytecount(c, NL)

C1_AnyBufferSameCount ==
    (pc = "ret" /\ cur \in opened /\ cur \notin (open_fails \cup read_fails))
        => ret = OneReadCount(Content, skip_empty)

(* C1, for the buffer sizes of at least one byte: the count does not       *)
(* depend on the buffer size nor on how the reads split the stream.        *)
C1_PositiveBufferSameCount ==
    (pc = "ret" /\ cur \in opened /\ cur \notin (open_fails \cup read_fails)
     /\ buffer_size > 0)
        => ret = OneReadCount(Content, skip_empty)

(***************************************************************************)
(* C2: in raw mode a stream read to its end without error returns the      *)
(* number of its newline bytes: N for N newlines, 0 for the empty stream,  *)
(* nothing added for a trailing unterminated line.                         *)
(***************************************************************************)
C2_RawCountsNewlines ==
    (ReadWhole /\ ~skip_empty) => ret = NumNewlines(Content)

(* C2's case: a stream read in more than one read, with newlines and an    *)
(* unterminated last line.                                                 *)
C2_Witness ==
    /\ ReadWhole /\ ~skip_empty
    /\ buffer_size > 0
    /\ Len(Content) >= 3
    /\ Content[Len(Content)] = XB
    /\ ret = 2

(***************************************************************************)
(* C3: in skip-empty mode a stream read to its end without error returns   *)
(* the number of newline-terminated lines holding a byte other than CR,    *)
(* space and tab, plus one for an unterminated last line holding such a    *)
(* byte; a stream of whitespace and newlines only, or empty, returns 0.    *)
(***************************************************************************)
C3_SkipEmptyCountsNonBlank ==
    (ReadWhole /\ skip_empty) =>
        /\ ret = NonEmptyLines(Content)
        /\ (\A i \in 1..Len(Content) : ~IsData(Content[i])) => ret = 0

(* C3's case: a blank line, a terminated line and an unterminated one. *)
C3_Witness ==
    /\ ReadWhole /\ skip_empty
    /\ Content = <<XB, NL, SP, XB>>
    /\ ret = 2

(***************************************************************************)
(* C9: when a read fails the counter returns the partial count: in raw     *)
(* mode the newlines of the bytes already read, in skip-empty mode the     *)
(* non-blank lines already ended by a newline, a pending unterminated      *)
(* line not counted.                                                       *)
(***************************************************************************)
C9_PartialCountKept ==
    ReadFailed =>
        ret = IF skip_empty THEN Cardinality(NonBlankEnds(ReadSoFar))
              ELSE NumNewlines(ReadSoFar)

(* C9's case: a read fails with a line counted and another one pending. *)
C9_Witness ==
    /\ ReadFailed /\ skip_empty
    /\ pos > 0 /\ pos < Len(Content)
    /\ has_data
    /\ ret = 1

(***************************************************************************)
(* C7: process_file returns 0 and never opens a path that has no           *)
(* extension or whose whole extension, letter case apart, is not in the    *)
(* list; a path whose extension is in the list in any letter case is       *)
(* opened.                                                                 *)
(***************************************************************************)
SameLetter(a, b) == a = b \/ (a \in DOMAIN UpperToLower /\ UpperToLower[a] = b)

(* The name has a dot that is neither its first character nor followed by  *)
(* another dot, and what follows it is an allowed extension.               *)
HasAllowedExt(name) ==
    \E d \in 2..Len(name) :
        /\ name[d] = "."
        /\ \A k \in (d + 1)..Len(name) : name[k] # "."
        /\ \E allowed \in FILE_EXT_LIST :
            /\ Len(allowed) = Len(name) - d
            /\ \A i \in 1..Len(allowed) : SameLetter(name[d + i], allowed[i])

C7_ExtensionGate ==
    /\ ~HasAllowedExt(fs[cur].name) =>
            /\ cur \notin opened
            /\ pc \in {"ret", "print", "done"} => ret = 0 /\ main_total = 0
    /\ (HasAllowedExt(fs[cur].name) /\ pc \in {"read", "ret", "print", "done"}) =>
            cur \in opened
    /\ is_valid_ext(<<"a", ".", "T", "X", "T">>)
    /\ ~is_valid_ext(<<"a", ".", "e", "x", "e">>)
    /\ ~is_valid_ext(<<"a">>)

(* C7's case: an extension of the list in upper case, opened. *)
C7_Witness ==
    /\ pc = "ret"
    /\ fs[cur].name = <<"s", ".", "R", "s">>
    /\ cur \in opened

(***************************************************************************)
(* The files a walk of the target reaches, stated on the tree.             *)
(***************************************************************************)
(* Every directory above n, the target included, is a readable directory. *)
RECURSIVE Listed(_)
Listed(n) ==
    n = Root \/ (/\ fs[fs[n].parent].kind = "dir"
                 /\ fs[fs[n].parent].ok
                 /\ Listed(fs[n].parent))

WalkedFiles ==
    {n \in Nodes \ {Root} :
        /\ fs[n].kind = "file"
        /\ IF recursive THEN Listed(n) ELSE fs[n].parent = Root /\ fs[Root].ok}

CountedFiles == {n \in WalkedFiles : HasAllowedExt(fs[n].name)}

RefCount(n) ==
    IF skip_empty THEN NonEmptyLines(fs[n].content) ELSE NumNewlines(fs[n].content)

RECURSIVE SumRefCount(_)
SumRefCount(S) ==
    IF S = {} THEN 0
    ELSE LET n == CHOOSE m \in S : TRUE IN RefCount(n) + SumRefCount(S \ {n})

(***************************************************************************)
(* C4: no error is fatal: a run given a target never aborts, whatever      *)
(* buffer-size, open, read or directory-listing error occurs, an           *)
(* unreadable target directory in shallow mode included.                   *)
(***************************************************************************)
C4_NoErrorIsFatal == pc # "panic"

(* C4, what holds: the one fatal error of a directory run is the listing   *)
(* of the target failing in a shallow walk.                                *)
C4_OnlyShallowListingIsFatal ==
    pc = "panic" => (~recursive /\ fs[Root].kind = "dir" /\ ~fs[Root].ok)

(***************************************************************************)
(* C5, as claimed: a file that fails to open or to read contributes 0.     *)
(***************************************************************************)
C5_FailedFileContributesZero ==
    (pc = "ret" /\ cur \in (open_fails \cup read_fails)) => ret = 0

(***************************************************************************)
(* C5, amended: a file that fails to open contributes 0, a file a read of  *)
(* which fails contributes the partial count of the bytes read before the  *)
(* failure, and a run that ends has processed every file of the walk once, *)
(* the ones after a failed file too.                                       *)
(***************************************************************************)
C5_FailedFileSkippedOrPartial ==
    /\ (pc = "ret" /\ cur \in open_fails) => ret = 0
    /\ (pc = "ret" /\ cur \in read_fails) =>
            ret = IF skip_empty THEN Cardinality(NonBlankEnds(ReadSoFar))
                  ELSE NumNewlines(ReadSoFar)
    /\ pc = "done" => \A n \in WalkedFiles : calls[n] = 1

(* C5's case: a file fails to open, a read of a later one fails after a    *)
(* line was counted, and a file is still to come.                          *)
C5_Witness ==
    /\ pc = "ret"
    /\ open_fails # {}
    /\ cur \in read_fails
    /\ ret > 0
    /\ \E n \in WalkedFiles : calls[n] = 0

(***************************************************************************)
(* C6: on a readable tree the total process_directory returns is the sum   *)
(* of the counts of the files with an allowed extension that are children  *)
(* of the target (shallow) or anywhere below it (recursive), each counted  *)
(* once; a shallow walk never processes a file of a subdirectory.          *)
(***************************************************************************)
C6_TotalIsSumOverWalkedFiles ==
    /\ ~recursive => \A n \in Nodes : fs[n].parent # Root => calls[n] = 0
    /\ (pc \in {"print", "done"} /\ read_fails = {} /\ \A n \in Nodes : fs[n].ok) =>
            /\ main_total = SumRefCount(CountedFiles)
            /\ \A n \in Nodes : calls[n] = IF n \in WalkedFiles THEN 1 ELSE 0
            /\ opened = CountedFiles

(* C6's case: a recursive run that counted a file of the target and a file *)
(* of a subdirectory.                                                      *)
C6_Witness ==
    /\ pc = "done"
    /\ recursive
    /\ read_fails = {}
    /\ \A n \in Nodes : fs[n].ok
    /\ \E n, m \in CountedFiles : fs[n].parent = Root /\ fs[m].parent # Root
    /\ main_total >= 2

(***************************************************************************)
(* C8: the totals are never negative: the counter's running total, the     *)
(* value process_file returns, the directory's total and the total         *)
(* printed.                                                                *)
(***************************************************************************)
C8_TotalsNeverNegative ==
    /\ total >= 0
    /\ ret >= 0
    /\ dir_total >= 0
    /\ main_total >= 0
    /\ \A i \in 1..Len(out) : out[i] >= 0

(***************************************************************************)
(* C10: on a finite tree without cycles the recursive walker ends: its     *)
(* stack empties and it returns None, then and at every later call; no     *)
(* path is pushed twice, no directory is returned, and an unreadable       *)
(* directory is dropped while the files outside it are still returned.     *)
(***************************************************************************)
C10_WalkerTerminates ==
    /\ <>[](walker_done /\ stack = <<>>)
    /\ []((walker_done /\ pc = "item") => item = None)
    /\ [](\A n \in Nodes : pushes[n] <= 1)
    /\ [](\A n \in yielded : fs[n].kind # "dir")
    /\ [](walker_done => yielded = {n \in Nodes : fs[n].kind = "file" /\ Listed(n)})

(* C10's case: a walk that pushed an unreadable directory and a file, has  *)
(* ended, and is asked again.                                              *)
C10_Witness ==
    /\ walker_done
    /\ pc = "next"
    /\ yielded # {}
    /\ \E d \in Nodes : fs[d].kind = "dir" /\ ~fs[d].ok /\ pushes[d] = 1 /\ d # Root

====
